---- MODULE Spec2Model ----
(***************************************************************************)
(* Model of job_finder.py: the daily job aggregation pipeline.             *)
(*                                                                         *)
(* Text is modelled as a sequence of one-character strings, so that        *)
(* concatenation (hash_job), lower() and the substring test "x in y"       *)
(* (detect_region, remotive_search) are computed as Python computes them.  *)
(***************************************************************************)
EXTENDS Integers, Sequences, FiniteSets, TLC

VARIABLES
    pc,            \* position of the process in job_finder.py
    env,           \* the environment secrets that are set (lines 11-17)
    error,         \* the uncaught exception that ended the process, if any
    keywords,      \* main: keywords
    history,       \* main: history (the in-memory set, mutated in place)
    loaded,        \* the value load_history() returned at line 162
    all_jobs,      \* main: all_jobs
    final_jobs,    \* main: final_jobs
    new_jobs,      \* main: new_jobs
    kw_i,          \* index of the keyword the loop of line 168 is at
    step,          \* index of the adapter call within that keyword's plan
    history_file,  \* jobs_history.json on disk
    today_file,    \* jobs_today.csv on disk
    prev_jobs,     \* what the providers returned to the previous run, when it completed
    net_used,      \* this process has made a network call
    io_used,       \* this process has opened a file
    smtp,          \* this process's notification delivery: idle, sent, failed
    location,      \* detect_region: its argument
    region         \* detect_region: its result

vars == <<pc, env, error, keywords, history, loaded, all_jobs, final_jobs,
          new_jobs, kw_i, step, history_file, today_file, prev_jobs,
          net_used, io_used, smtp, location, region>>

-----------------------------------------------------------------------------
(* Bounds *)

\* most fragments a location text is put together from
MaxFrags == 2
\* most records the providers return to one run
MaxJobs == 3

-----------------------------------------------------------------------------
(* Text *)

UpperCase == <<"A","B","C","D","E","F","G","H","I","J","K","L","M",
               "N","O","P","Q","R","S","T","U","V","W","X","Y","Z">>
LowerCase == <<"a","b","c","d","e","f","g","h","i","j","k","l","m",
               "n","o","p","q","r","s","t","u","v","w","x","y","z">>

\* str.lower() on one character
LowerChar(c) ==
    IF \E i \in 1..Len(UpperCase) : UpperCase[i] = c
    THEN LowerCase[CHOOSE i \in 1..Len(UpperCase) : UpperCase[i] = c]
    ELSE c

\* str.lower()
Lower(s) == [i \in 1..Len(s) |-> LowerChar(s[i])]

\* Python's "needle in hay" on str
Contains(hay, needle) ==
    \E i \in 0..(Len(hay) - Len(needle)) :
        SubSeq(hay, i + 1, i + Len(needle)) = needle

Whitespace == {" ", "\t", "\n"}

RECURSIVE LStrip(_)
LStrip(s) == IF s # <<>> /\ Head(s) \in Whitespace THEN LStrip(Tail(s)) ELSE s

RECURSIVE RStrip(_)
RStrip(s) ==
    IF s # <<>> /\ s[Len(s)] \in Whitespace
    THEN RStrip(SubSeq(s, 1, Len(s) - 1))
    ELSE s

\* str.strip()
Strip(s) == RStrip(LStrip(s))

\* the text constants of the program
T_India     == <<"I","n","d","i","a">>
T_Dubai     == <<"D","u","b","a","i">>
T_UAE       == <<"U","A","E">>
T_Qatar     == <<"Q","a","t","a","r">>
T_Singapore == <<"S","i","n","g","a","p","o","r","e">>
T_europe    == <<"e","u","r","o","p","e">>
T_Europe    == <<"E","u","r","o","p","e">>
T_Other     == <<"O","t","h","e","r">>
T_Unknown   == <<"U","n","k","n","o","w","n">>

-----------------------------------------------------------------------------
(* detect_region *)

PREFERRED_REGIONS == <<T_India, T_Dubai, T_UAE, T_Qatar, T_Singapore>>

\* the loop of lines 130-132 from entry i on, then lines 133-135
RECURSIVE RegionFrom(_, _)
RegionFrom(loc, i) ==
    IF i > Len(PREFERRED_REGIONS)
    THEN IF Contains(Lower(loc), T_europe) THEN T_Europe ELSE T_Other
    ELSE IF Contains(Lower(loc), Lower(PREFERRED_REGIONS[i]))
         THEN PREFERRED_REGIONS[i]
         ELSE RegionFrom(loc, i + 1)

\* a plausible slip: the comparison forgets to lower-case the location
RECURSIVE RegionFromCased(_, _)
RegionFromCased(loc, i) ==
    IF i > Len(PREFERRED_REGIONS)
    THEN IF Contains(Lower(loc), T_europe) THEN T_Europe ELSE T_Other
    ELSE IF Contains(loc, PREFERRED_REGIONS[i])
         THEN PREFERRED_REGIONS[i]
         ELSE RegionFromCased(loc, i + 1)

\* detect_region with that slip
detect_region_cased(loc) ==
    IF loc = <<>> THEN T_Unknown ELSE RegionFromCased(loc, 1)

\* lines 127-135
detect_region(loc) ==
    IF loc = <<>> THEN T_Unknown ELSE RegionFrom(loc, 1)

\* pieces of location text; a location is up to MaxFrags of them in a row
Fragments ==
    { T_India, T_Dubai, T_UAE, T_Qatar, T_Singapore, T_Europe,
      <<"I","N","D","I","A">>, <<"d","u","b","a","i">>, <<"u","a","e">>,
      <<"E","U","R","O","P","E">>, <<"I","n","d">>, <<"i","a">>,
      <<"R","e","m","o","t","e">>, <<",">>, <<" ">> }

RECURSIVE LocationsOf(_)
LocationsOf(n) ==
    IF n = 0 THEN { <<>> }
    ELSE LocationsOf(n - 1) \cup
         { l \o f : l \in LocationsOf(n - 1), f \in Fragments }

Locations == LocationsOf(MaxFrags)

Pending == <<"pending">>

-----------------------------------------------------------------------------
(* Python values *)

\* dict.get(k, default)
Get(d, k, default) == IF k \in DOMAIN d THEN d[k] ELSE default

\* the outcome of a call: a returned value or an uncaught exception
Return(v)  == [raised |-> FALSE, value |-> v]
Raise(exc) == [raised |-> TRUE, exc |-> exc]

\* every order a set can be listed in
RECURSIVE Perms(_)
Perms(S) ==
    IF S = {} THEN { <<>> }
    ELSE UNION { { <<x>> \o p : p \in Perms(S \ {x}) } : x \in S }

Range(s) == { s[i] : i \in 1..Len(s) }

-----------------------------------------------------------------------------
(* Files *)

KEYWORDS_FILE == << <<" ","A","B","\n">>, <<"\n">>, <<" ","\n">> >>

\* load_keywords: the stripped non-blank lines, in order
RECURSIVE StripLines(_)
StripLines(lines) ==
    IF lines = <<>> THEN <<>>
    ELSE IF Strip(Head(lines)) # <<>>
         THEN <<Strip(Head(lines))>> \o StripLines(Tail(lines))
         ELSE StripLines(Tail(lines))

load_keywords == StripLines(KEYWORDS_FILE)

Absent       == [kind |-> "absent"]
Truncated    == [kind |-> "partial"]
JsonFile(l)  == [kind |-> "json", data |-> l]

\* whether json.load accepts the file's content
Readable(f) == f.kind = "json"

\* the set a readable or absent file stands for
FileSet(f) == IF f.kind = "json" THEN Range(f.data) ELSE {}

\* load_history: the empty set without a file, the listed set with one,
\* and json.load's exception on content that is not a JSON document
load_history(f) ==
    IF f.kind = "absent" THEN Return({})
    ELSE IF f.kind = "json" THEN Return(Range(f.data))
    ELSE Raise("JSONDecodeError")

\* save_history's document: list(history) in whatever order the set iterates
save_history_docs(h) == { JsonFile(l) : l \in Perms(h) }

-----------------------------------------------------------------------------
(* Identity *)

\* hashlib.md5(...).hexdigest(), taken as collision-free: the digest stands
\* for the text it was computed from
MD5(text) == <<"md5", text>>

\* f"{title}{company}{url}": the three texts joined with nothing between
hash_job(title, company, url) == MD5(title \o company \o url)

Triple(j) == <<j.title, j.company, j.url>>
IdOf(j)   == hash_job(j.title, j.company, j.url)
Ids(jobs) == { IdOf(jobs[i]) : i \in 1..Len(jobs) }

-----------------------------------------------------------------------------
(* Provider payloads *)

t_ab == <<"a","b">>
t_Ab == <<"A","b">>
t_a  == <<"a">>
t_bc == <<"b","c">>
t_c  == <<"c">>
t_u  == <<"u">>
t_cu == <<"c","u">>
t_xy == <<"x","y">>

\* entries of the Remotive feed: a match, a title the keyword is not in,
\* and a matching entry that lacks the other keys
RemotiveItems ==
    { [title |-> t_ab, company_name |-> t_c,
       candidate_required_location |-> T_Europe, job_type |-> "full_time",
       url |-> t_u],
      [title |-> t_xy, company_name |-> t_c,
       candidate_required_location |-> <<>>, job_type |-> "", url |-> t_u],
      [title |-> t_ab] }

\* entries of an Adzuna listing: a full one, and one without location and type
AdzunaItems ==
    { [title |-> t_ab, company |-> [display_name |-> t_c],
       location |-> [display_name |-> T_India],
       contract_type |-> "permanent", redirect_url |-> t_u],
      [title |-> t_a, company |-> [display_name |-> t_bc],
       redirect_url |-> t_u] }

\* entries of a Google result page: one without displayLink, whose title
\* differs from the others' in case alone, and one without title
GoogleItems ==
    { [title |-> t_Ab, link |-> t_cu],
      [displayLink |-> t_c, link |-> t_u] }

NetErr == [kind |-> "neterr"]
NonJson(status) == [kind |-> "response", status |-> status, json |-> FALSE]
Json(status, data) ==
    [kind |-> "response", status |-> status, json |-> TRUE, data |-> data]

\* what one HTTP request can come back with: no response at all, a body
\* that is not JSON, an error document, or a page of entries under the
\* provider's key: an empty page, or any one or two of the entries
Responses(key, items) ==
    { NetErr, NonJson(200), NonJson(500),
      Json(500, [message |-> "error"]) }
    \cup { Json(200, (key :> page)) :
            page \in {<<>>} \cup { <<x>> : x \in items }
                            \cup { <<x, y>> : x \in items, y \in items } }

-----------------------------------------------------------------------------
(* Source adapters *)

RequiredKeys(item, keys) == \A k \in keys : k \in DOMAIN item

\* google_search: nothing is caught
google_search(query, resp) ==
    IF resp.kind = "neterr" THEN Raise("ConnectionError")
    ELSE IF ~resp.json THEN Raise("JSONDecodeError")
    ELSE LET items == Get(resp.data, "items", <<>>) IN
         IF \E i \in 1..Len(items) : ~RequiredKeys(items[i], {"title", "link"})
         THEN Raise("KeyError")
         ELSE Return([i \in 1..Len(items) |->
                [title    |-> items[i]["title"],
                 company  |-> Get(items[i], "displayLink", <<>>),
                 location |-> <<>>,
                 type     |-> "",
                 url      |-> items[i]["link"],
                 source   |-> "Google Hidden Jobs"]])

\* adzuna_search: every failure is caught and gives []
adzuna_search(keyword, country, resp) ==
    IF resp.kind = "neterr" THEN Return(<<>>)
    ELSE IF resp.status # 200 THEN Return(<<>>)
    ELSE IF ~resp.json THEN Return(<<>>)
    ELSE LET items == Get(resp.data, "results", <<>>) IN
         Return([i \in 1..Len(items) |->
                [title    |-> Get(items[i], "title", <<>>),
                 company  |-> Get(Get(items[i], "company", <<>>), "display_name", <<>>),
                 location |-> Get(Get(items[i], "location", <<>>), "display_name", <<>>),
                 type     |-> Get(items[i], "contract_type", ""),
                 url      |-> Get(items[i], "redirect_url", <<>>),
                 source   |-> "Adzuna"]])

RemotiveKeys ==
    {"title", "company_name", "candidate_required_location", "job_type", "url"}

\* remotive_search: nothing is caught; the feed is filtered by the keyword
remotive_search(keyword, resp) ==
    IF resp.kind = "neterr" THEN Raise("ConnectionError")
    ELSE IF ~resp.json THEN Raise("JSONDecodeError")
    ELSE LET items == Get(resp.data, "jobs", <<>>)
             Match(j) == Contains(Lower(j["title"]), Lower(keyword))
         IN  IF \E i \in 1..Len(items) :
                    \/ "title" \notin DOMAIN items[i]
                    \/ Match(items[i]) /\ ~RequiredKeys(items[i], RemotiveKeys)
             THEN Raise("KeyError")
             ELSE LET hits == SelectSeq(items, Match) IN
                  Return([i \in 1..Len(hits) |->
                    [title    |-> hits[i]["title"],
                     company  |-> hits[i]["company_name"],
                     location |-> hits[i]["candidate_required_location"],
                     type     |-> hits[i]["job_type"],
                     url      |-> hits[i]["url"],
                     source   |-> "Remotive"]])

-----------------------------------------------------------------------------
(* Query plan: per keyword one Remotive call, one Adzuna call per country, *)
(* one Google call per phrasing                                            *)

adzuna_countries == <<"in", "sg", "ae", "qa", "gb", "fr", "de", "nl">>
hidden_queries   == <<" job", " careers", " site:careers", " site:jobs",
                      " recruiter", " consulting">>

CallsPerKeyword == 1 + Len(adzuna_countries) + Len(hidden_queries)

IsRemotiveStep(s) == s = 1
IsAdzunaStep(s)   == s > 1 /\ s <= 1 + Len(adzuna_countries)
IsGoogleStep(s)   == s > 1 + Len(adzuna_countries) /\ s <= CallsPerKeyword

-----------------------------------------------------------------------------
(* Deduplication: the loop of lines 186-202                                *)

\* a plausible slip: the seen-this-run test is left out
DedupStepNoSeen(acc, j, idx, hist) ==
    LET h  == hash_job(j.title, j.company, j.url)
        jj == [title |-> j.title, company |-> j.company,
               location |-> j.location, type |-> j.type, url |-> j.url,
               source |-> j.source,
               region_group |-> detect_region(j.location),
               new |-> IF h \notin hist THEN "Yes" ELSE "No"]
    IN  [seen  |-> acc.seen \cup {h},
         final |-> Append(acc.final, jj),
         new   |-> IF h \notin hist THEN Append(acc.new, jj) ELSE acc.new,
         kept  |-> Append(acc.kept, idx)]

\* one iteration of the loop; kept notes the input position of each
\* accepted record
DedupStep(acc, j, idx, hist) ==
    LET h == hash_job(j.title, j.company, j.url) IN
    IF h \in acc.seen THEN acc
    ELSE LET jj == [title |-> j.title, company |-> j.company,
                    location |-> j.location, type |-> j.type, url |-> j.url,
                    source |-> j.source,
                    region_group |-> detect_region(j.location),
                    new |-> IF h \notin hist THEN "Yes" ELSE "No"]
         IN  [seen  |-> acc.seen \cup {h},
              final |-> Append(acc.final, jj),
              new   |-> IF h \notin hist THEN Append(acc.new, jj) ELSE acc.new,
              kept  |-> Append(acc.kept, idx)]

RECURSIVE DedupFrom(_, _, _, _)
DedupFrom(jobs, i, hist, acc) ==
    IF i > Len(jobs) THEN acc
    ELSE DedupFrom(jobs, i + 1, hist, DedupStep(acc, jobs[i], i, hist))

Dedup(jobs, hist) ==
    DedupFrom(jobs, 1, hist,
              [seen |-> {}, final |-> <<>>, new |-> <<>>, kept |-> <<>>])

\* a plausible slip: the set is rebuilt from this run alone
run_ids_only(hist, jobs) == Ids(jobs)

\* a plausible slip: the loop of lines 219-220 is left out
keep_loaded(hist, jobs) == hist

\* lines 219-220: the run's identities are added to the loaded set
add_run_ids(hist, jobs) == hist \cup Ids(jobs)

\* lines 204-217: the header and one row per final record
CsvHeader == <<"New", "Title", "Company", "Location", "RegionGroup", "Type",
               "Source", "URL">>

CsvRows(jobs) ==
    [i \in 1..Len(jobs) |->
        <<jobs[i].new, jobs[i].title, jobs[i].company, jobs[i].location,
          jobs[i].region_group, jobs[i].type, jobs[i].source, jobs[i].url>>]

CsvFile(jobs) == [kind |-> "csv", header |-> CsvHeader, rows |-> CsvRows(jobs)]

-----------------------------------------------------------------------------
(* The process *)

Secrets == {"GOOGLE_API_KEY", "GOOGLE_CSE_ID", "ADZUNA_APP_ID",
            "ADZUNA_APP_KEY", "EMAIL_ADDRESS", "EMAIL_PASSWORD"}

\* every secret set, or exactly one of them missing
Environments == {Secrets} \cup { Secrets \ {s} : s \in Secrets }

\* the environments in which every provider key is set
ProviderReady ==
    { e \in Environments :
        {"GOOGLE_API_KEY", "GOOGLE_CSE_ID", "ADZUNA_APP_ID", "ADZUNA_APP_KEY"}
            \subseteq e }

\* lines 22-23: the only check made at import
credentials_ok(e) == "EMAIL_ADDRESS" \in e /\ "EMAIL_PASSWORD" \in e

NoError == [at |-> "", exc |-> ""]
Uncaught(at, exc) == [at |-> at, exc |-> exc]

NoPrev == <<>>

\* a plausible slip: the digest is sent before the history is persisted
StepAfterEmailFirst(p) ==
    CASE p = "dedup"  -> "table"
      [] p = "table"  -> "email"
      [] p = "email"  -> "persist"
      [] p = "saving" -> "done"

\* main's statements after the fan-out, in the order they run
StepAfter(p) ==
    CASE p = "dedup"  -> "table"
      [] p = "table"  -> "persist"
      [] p = "saving" -> "email"
      [] p = "email"  -> "done"

Stopped == {"off", "aborted", "crashed", "done"}

Init ==
    /\ pc = "off"
    /\ env = Secrets
    /\ error = NoError
    /\ keywords = <<>>
    /\ history = {}
    /\ loaded = {}
    /\ all_jobs = <<>>
    /\ final_jobs = <<>>
    /\ new_jobs = <<>>
    /\ kw_i = 0
    /\ step = 0
    /\ history_file = Absent
    /\ today_file = Absent
    /\ prev_jobs = NoPrev
    /\ net_used = FALSE
    /\ io_used = FALSE
    /\ smtp = "idle"
    /\ location = <<>>
    /\ region = Pending

\* python job_finder.py: lines 11-23 run at import, then main() is entered
Start(envs) ==
    /\ pc \in Stopped
    /\ \E e \in envs :
        /\ env' = e
        /\ IF credentials_ok(e)
           THEN pc' = "main" /\ error' = NoError
           ELSE pc' = "aborted" /\ error' = Uncaught("module", "Exception")
    /\ prev_jobs' = IF pc = "done" THEN <<all_jobs>> ELSE NoPrev
    /\ keywords' = <<>>
    /\ history' = {}
    /\ loaded' = {}
    /\ all_jobs' = <<>>
    /\ final_jobs' = <<>>
    /\ new_jobs' = <<>>
    /\ kw_i' = 0
    /\ step' = 0
    /\ net_used' = FALSE
    /\ io_used' = FALSE
    /\ smtp' = "idle"
    /\ UNCHANGED <<history_file, today_file, location, region>>

\* a start with the provider keys in place
Launch == Start(ProviderReady)

\* a start in any environment
LaunchAnywhere == Start(Environments)

\* lines 161-166
LoadInputs ==
    /\ pc = "main"
    /\ io_used' = TRUE
    /\ keywords' = load_keywords
    /\ LET r == load_history(history_file) IN
        IF r.raised
        THEN /\ pc' = "crashed"
             /\ error' = Uncaught("load_history", r.exc)
             /\ UNCHANGED <<history, loaded, kw_i, step>>
        ELSE /\ history' = r.value
             /\ loaded' = r.value
             /\ error' = error
             /\ IF load_keywords = <<>>
                THEN pc' = "dedup" /\ UNCHANGED <<kw_i, step>>
                ELSE pc' = "fanout" /\ kw_i' = 1 /\ step' = 1
    /\ UNCHANGED <<env, all_jobs, final_jobs, new_jobs, history_file,
                   today_file, prev_jobs, net_used, smtp, location, region>>

\* all_jobs.extend(...) with an adapter's outcome, then on to the next call
Collect(r, adapter) ==
    /\ net_used' = TRUE
    /\ IF r.raised
       THEN /\ pc' = "crashed"
            /\ error' = Uncaught(adapter, r.exc)
            /\ UNCHANGED <<all_jobs, kw_i, step>>
       ELSE /\ Len(all_jobs) + Len(r.value) <= MaxJobs
            /\ all_jobs' = all_jobs \o r.value
            /\ error' = error
            /\ IF step < CallsPerKeyword
               THEN pc' = pc /\ kw_i' = kw_i /\ step' = step + 1
               ELSE IF kw_i < Len(keywords)
                    THEN pc' = pc /\ kw_i' = kw_i + 1 /\ step' = 1
                    ELSE pc' = "dedup" /\ kw_i' = 0 /\ step' = 0
    /\ UNCHANGED <<env, keywords, history, loaded, final_jobs, new_jobs,
                   history_file, today_file, prev_jobs, io_used, smtp,
                   location, region>>

\* line 169
RemotiveCall ==
    /\ pc = "fanout" /\ IsRemotiveStep(step)
    /\ \E resp \in Responses("jobs", RemotiveItems) :
        Collect(remotive_search(keywords[kw_i], resp), "remotive_search")

\* line 172
AdzunaCall ==
    /\ pc = "fanout" /\ IsAdzunaStep(step)
    /\ \E resp \in Responses("results", AdzunaItems) :
        Collect(adzuna_search(keywords[kw_i], adzuna_countries[step - 1], resp),
                "adzuna_search")

\* line 184
GoogleCall ==
    /\ pc = "fanout" /\ IsGoogleStep(step)
    /\ \E resp \in Responses("items", GoogleItems) :
        Collect(google_search(
                    keywords[kw_i] \o <<hidden_queries[step - 1 - Len(adzuna_countries)]>>,
                    resp),
                "google_search")

\* lines 186-202; the records of all_jobs are not read again after this
\* loop, so the fields it sets are kept on final_jobs alone
DedupPass ==
    /\ pc = "dedup"
    /\ LET d == Dedup(all_jobs, history) IN
        /\ final_jobs' = d.final
        /\ new_jobs' = d.new
    /\ pc' = StepAfter("dedup")
    /\ UNCHANGED <<env, error, keywords, history, loaded, all_jobs, kw_i, step,
                   history_file, today_file, prev_jobs, net_used, io_used,
                   smtp, location, region>>

\* lines 204-217
WriteTable ==
    /\ pc = "table"
    /\ today_file' = CsvFile(final_jobs)
    /\ pc' = StepAfter("table")
    /\ UNCHANGED <<env, error, keywords, history, loaded, all_jobs, final_jobs,
                   new_jobs, kw_i, step, history_file, prev_jobs, net_used,
                   io_used, smtp, location, region>>

\* lines 219-222 up to save_history's open(HISTORY_FILE, "w"), which empties
\* the file in place
OpenHistory ==
    /\ pc = "persist"
    /\ history' = add_run_ids(history, final_jobs)
    /\ history_file' = Truncated
    /\ pc' = "saving"
    /\ UNCHANGED <<env, error, keywords, loaded, all_jobs, final_jobs, new_jobs,
                   kw_i, step, today_file, prev_jobs, net_used, io_used, smtp,
                   location, region>>

\* line 43 and the close of the file
WriteHistory ==
    /\ pc = "saving"
    /\ history_file' \in save_history_docs(history)
    /\ pc' = StepAfter("saving")
    /\ UNCHANGED <<env, error, keywords, history, loaded, all_jobs, final_jobs,
                   new_jobs, kw_i, step, today_file, prev_jobs, net_used,
                   io_used, smtp, location, region>>

\* the process dies between the open and the end of the write
WriteHistoryFails ==
    /\ pc = "saving"
    /\ pc' = "crashed"
    /\ error' = Uncaught("save_history", "OSError")
    /\ UNCHANGED <<env, keywords, history, loaded, all_jobs, final_jobs,
                   new_jobs, kw_i, step, history_file, today_file, prev_jobs,
                   net_used, io_used, smtp, location, region>>

\* line 224: the message is built and handed to the SMTP relay, which
\* accepts it or raises
SendEmail ==
    /\ pc = "email"
    /\ net_used' = TRUE
    /\ \E delivered \in BOOLEAN :
        IF delivered
        THEN smtp' = "sent" /\ pc' = StepAfter("email") /\ error' = error
        ELSE smtp' = "failed" /\ pc' = "crashed"
             /\ error' = Uncaught("send_email", "SMTPException")
    /\ UNCHANGED <<env, keywords, history, loaded, all_jobs, final_jobs,
                   new_jobs, kw_i, step, history_file, today_file, prev_jobs,
                   io_used, location, region>>

Next ==
    \/ Launch
    \/ LoadInputs
    \/ RemotiveCall
    \/ AdzunaCall
    \/ GoogleCall
    \/ DedupPass
    \/ WriteTable
    \/ OpenHistory
    \/ WriteHistory
    \/ WriteHistoryFails
    \/ SendEmail

Spec == Init /\ [][Next]_vars

\* the same program started in any environment
EnvNext ==
    \/ LaunchAnywhere
    \/ LoadInputs
    \/ RemotiveCall
    \/ AdzunaCall
    \/ GoogleCall
    \/ DedupPass
    \/ WriteTable
    \/ OpenHistory
    \/ WriteHistory
    \/ WriteHistoryFails
    \/ SendEmail

EnvSpec == Init /\ [][EnvNext]_vars

-----------------------------------------------------------------------------
(* detect_region on its own *)

RegionInit ==
    /\ pc = "off"
    /\ env = Secrets
    /\ error = NoError
    /\ keywords = <<>>
    /\ history = {}
    /\ loaded = {}
    /\ all_jobs = <<>>
    /\ final_jobs = <<>>
    /\ new_jobs = <<>>
    /\ kw_i = 0
    /\ step = 0
    /\ history_file = Absent
    /\ today_file = Absent
    /\ prev_jobs = NoPrev
    /\ net_used = FALSE
    /\ io_used = FALSE
    /\ smtp = "idle"
    /\ location \in Locations
    /\ region = Pending

Classify ==
    /\ region = Pending
    /\ region' = detect_region(location)
    /\ UNCHANGED <<pc, env, error, keywords, history, loaded, all_jobs,
                   final_jobs, new_jobs, kw_i, step, history_file, today_file,
                   prev_jobs, net_used, io_used, smtp, location>>

RegionNext == Classify

RegionSpec == RegionInit /\ [][RegionNext]_vars

-----------------------------------------------------------------------------
(* Properties *)

\* the positions of main after the deduplication loop
PostDedup == {"table", "persist", "saving", "email", "done"}

IsNew(j) == j.new = "Yes"

Occurrences(jobs, h) == { i \in 1..Len(jobs) : IdOf(jobs[i]) = h }

\* C1: after the deduplication pass a final record is flagged "Yes" exactly
\* when its identity is not in the history loaded at the start of the run,
\* new_jobs is the flagged records in order, and every identity of the raw
\* input has exactly one record in final_jobs and at most one in new_jobs,
\* however often it occurs in the input.
C1_NewFlag ==
    pc \in PostDedup =>
        /\ \A i \in 1..Len(final_jobs) :
              IsNew(final_jobs[i]) <=> IdOf(final_jobs[i]) \notin loaded
        /\ \A i \in 1..Len(final_jobs) : final_jobs[i].new \in {"Yes", "No"}
        /\ new_jobs = SelectSeq(final_jobs, IsNew)
        /\ \A h \in Ids(all_jobs) :
              /\ Cardinality(Occurrences(final_jobs, h)) = 1
              /\ Cardinality(Occurrences(new_jobs, h)) <= 1

\* an identity occurs twice in a full input, one final record is new and
\* another is not
C1_Witness ==
    /\ pc = "table"
    /\ Len(all_jobs) = MaxJobs
    /\ \E h \in Ids(all_jobs) : Cardinality(Occurrences(all_jobs, h)) >= 2
    /\ \E i, k \in 1..Len(final_jobs) :
          IsNew(final_jobs[i]) /\ ~IsNew(final_jobs[k])

\* the input positions the loop accepted
Kept == Range(Dedup(all_jobs, loaded).kept)

SameTriple(i) == { k \in 1..Len(all_jobs) : Triple(all_jobs[k]) = Triple(all_jobs[i]) }

First(S) == CHOOSE i \in S : \A k \in S : i <= k

\* C2: the final set is no longer than the input, it is the accepted input
\* records in input order, and of any two input records with the same
\* (title, company, url) exactly one record with that triple is accepted:
\* the first in input order.
C2_FirstOfTriple ==
    pc \in PostDedup =>
        LET kept == Dedup(all_jobs, loaded).kept IN
        /\ Len(final_jobs) <= Len(all_jobs)
        /\ Len(kept) = Len(final_jobs)
        /\ \A n \in 1..Len(kept) :
              /\ Triple(final_jobs[n]) = Triple(all_jobs[kept[n]])
              /\ final_jobs[n].source = all_jobs[kept[n]].source
              /\ n > 1 => kept[n - 1] < kept[n]
        /\ \A i, j \in 1..Len(all_jobs) :
              (i < j /\ Triple(all_jobs[i]) = Triple(all_jobs[j])) =>
                  SameTriple(i) \cap Kept = {First(SameTriple(i))}

\* C3: while a run has not begun to persist, the history file holds what the
\* run loaded; once save_history has returned, the file is readable and
\* holds the loaded history united with the identities of all the run's
\* records, so nothing that was in it is gone.
C3_History ==
    /\ pc \in {"fanout", "dedup", "table", "persist"} =>
          /\ history_file.kind # "partial"
          /\ FileSet(history_file) = loaded
    /\ (pc \in {"email", "done"} \/ smtp # "idle") =>
          /\ Readable(history_file)
          /\ FileSet(history_file) = loaded \cup Ids(all_jobs)

\* a completed run that loaded identities it did not see again and saw
\* identities it had not loaded
C3_Witness ==
    /\ pc = "done"
    /\ loaded \ Ids(all_jobs) # {}
    /\ Ids(all_jobs) \ loaded # {}
    /\ FileSet(history_file) = loaded \cup Ids(all_jobs)

\* C4: when the run before this one completed and the providers return
\* to this run what they returned to that one, no record of this run is
\* new: new_jobs is empty, every final record is flagged "No", and so is
\* every row of the table once it is written.
C4_SecondRun ==
    (pc \in PostDedup /\ prev_jobs = <<all_jobs>>) =>
        /\ new_jobs = <<>>
        /\ \A i \in 1..Len(final_jobs) : final_jobs[i].new = "No"
        /\ pc # "table" =>
              /\ today_file.kind = "csv"
              /\ \A i \in 1..Len(today_file.rows) : today_file.rows[i][1] = "No"

\* a second run on the same provider data, with records, has completed
C4_Witness ==
    /\ pc = "done"
    /\ prev_jobs = <<all_jobs>>
    /\ Len(final_jobs) >= 2
    /\ Len(today_file.rows) = Len(final_jobs)

\* C5: when the process fails inside save_history, the history file still
\* holds the history the run loaded and the next load_history returns it.
C5_AtomicPersist ==
    (pc = "crashed" /\ error.at = "save_history") =>
        /\ history_file.kind # "partial"
        /\ FileSet(history_file) = loaded
        /\ ~load_history(history_file).raised

\* C6: no adapter call ends the run: whatever the calls come back with, no
\* exception leaves google_search, adzuna_search or remotive_search.
C6_AdaptersNeverRaise ==
    error.at \notin {"google_search", "adzuna_search", "remotive_search"}

\* C7: whenever delivery of the digest has been attempted, accepted or
\* refused, the table of this run is on disk and the history of this run
\* is persisted, and both stay so after a refusal.
C7_SinksBeforeEmail ==
    smtp # "idle" =>
        /\ today_file = CsvFile(final_jobs)
        /\ Readable(history_file)
        /\ FileSet(history_file) = loaded \cup Ids(final_jobs)

\* the relay refused the digest of a run that had records
C7_Witness ==
    /\ smtp = "failed"
    /\ pc = "crashed"
    /\ error.at = "send_email"
    /\ final_jobs # <<>>
    /\ today_file = CsvFile(final_jobs)

\* C8: a process started with any required secret missing makes no network
\* call and opens no file.
C8_AbortOnMissingSecret ==
    env # Secrets => (~net_used /\ ~io_used)

\* C10: two input records whose (title, company, url) differ have
\* different identities, and both are accepted into the final set.
C10_DistinctTriples ==
    pc \in PostDedup =>
        \A i, j \in 1..Len(all_jobs) :
            Triple(all_jobs[i]) # Triple(all_jobs[j]) =>
                /\ IdOf(all_jobs[i]) # IdOf(all_jobs[j])
                /\ \E m, n \in 1..Len(final_jobs) :
                      /\ m # n
                      /\ Triple(final_jobs[m]) = Triple(all_jobs[i])
                      /\ Triple(final_jobs[n]) = Triple(all_jobs[j])

\* the preferred regions that occur in a location, case-insensitively
Matching(loc) ==
    { i \in 1..Len(PREFERRED_REGIONS) :
        Contains(Lower(loc), Lower(PREFERRED_REGIONS[i])) }

RegionLabels == Range(PREFERRED_REGIONS) \cup {T_Europe, T_Other, T_Unknown}

\* C9: detect_region gives "Unknown" for the empty location; otherwise the
\* first entry of PREFERRED_REGIONS occurring in the location whatever the
\* case, also when later entries or "europe" occur too; otherwise "Europe"
\* when "europe" occurs whatever the case; otherwise "Other".  The result is
\* always one of these labels.
C9_Region ==
    region # Pending =>
        /\ region \in RegionLabels
        /\ location = <<>> => region = T_Unknown
        /\ (location # <<>> /\ Matching(location) # {}) =>
              region = PREFERRED_REGIONS[First(Matching(location))]
        /\ (location # <<>> /\ Matching(location) = {}
              /\ Contains(Lower(location), T_europe)) => region = T_Europe
        /\ (location # <<>> /\ Matching(location) = {}
              /\ ~Contains(Lower(location), T_europe)) => region = T_Other

\* a location that names India in other case than the list's, and a later
\* preferred region too, is classified India
C9_Witness ==
    /\ region = T_India
    /\ Cardinality(Matching(location)) >= 2
    /\ ~Contains(location, T_India)

====
